---- MODULE Spec2Model ----
(***************************************************************************)
(* Model of the events package (github.com/jProgr/events): the Config      *)
(* settings, the Dispatcher (NewDispatcher, Register, Dispatch,            *)
(* dispatchAsync) and the package-level facade (Register, Dispatch).       *)
(*                                                                         *)
(* A *sync.WaitGroup is a handle number: 0 is nil, 1..NumExt are the       *)
(* WaitGroups allocated by callers, NumExt + d is the one NewDispatcher    *)
(* allocates for dispatcher d. A *Dispatcher is its index in dispatchers;  *)
(* 0 is nil.                                                               *)
(***************************************************************************)
EXTENDS Integers, Sequences, FiniteSets, TLC

VARIABLES
    cfg,          \* a Config object handled directly (as in the config tests)
    cfgRet,       \* the last call made on cfg and what it returned
    dispatchers,  \* the Dispatcher objects, in construction order
    facade,       \* the package variable facade
    wg,           \* counter of every sync.WaitGroup
    owner,        \* what the caller itself has added to each of its WaitGroups
    regd,         \* ghost: the Register calls made so far, per dispatcher and id
    call,         \* the calling goroutine's position inside Dispatcher.Dispatch
    gor,          \* the goroutines started by dispatchAsync and not yet finished
    log,          \* ghost: per Dispatch, the listener invocations that returned;
                  \* its length is the number of Dispatch calls explored
    payload,      \* the data each dispatched Event points to
    ndisp,        \* ghost: number of Dispatch calls that found listeners
    lastCall      \* ghost: the last call of the caller and its outcome

vars == <<cfg, cfgRet, dispatchers, facade, wg, owner, regd, call, gor, log, payload,
          ndisp, lastCall>>

dispVars == <<dispatchers, facade, wg, owner, regd, call, gor, log, payload, ndisp, lastCall>>

-----------------------------------------------------------------------------
(* Bounds *)

\* Dispatchers built.
MaxDispatchers == 2
\* Listeners registered, over all dispatchers and ids.
MaxRegs == 2
\* Dispatch calls that find listeners.
MaxCalls == 1
\* Configurers passed to one NewDispatcher.
MaxConfigurers == 2
\* WaitGroups allocated by the callers.
NumExt == 1
\* What a caller adds itself to one of its WaitGroups.
MaxOwnerAdds == 1

EventIds == {"event a", "event b"}
Listeners == {"listenerA", "listenerB"}

ExtHandles == 1..NumExt
Handles == 1..(NumExt + MaxDispatchers)

-----------------------------------------------------------------------------
(* config.go *)

\* The Config as it would be if it were built as &Config{}, every field at
\* its zero value.
newZeroConfig ==
    [isAsync |-> FALSE, isFacade |-> FALSE, shouldWait |-> FALSE, waitGroup |-> 0]

newDefaultConfig ==
    [isAsync |-> FALSE, isFacade |-> FALSE, shouldWait |-> TRUE, waitGroup |-> 0]

ShouldAsync(config, shouldAsync) == [config EXCEPT !.isAsync = shouldAsync]

AsFacade(config, isFacade) == [config EXCEPT !.isFacade = isFacade]

\* ShouldWait as it would be without its first if: both fields are always stored.
ShouldWaitUnchecked(config, shouldWait, waitGroup) ==
    [config |-> [config EXCEPT !.shouldWait = shouldWait, !.waitGroup = waitGroup],
     err |-> "nil"]

\* ShouldWait as it would be if a nil waitGroup left the stored one in place.
ShouldWaitKeepsGroup(config, shouldWait, waitGroup) ==
    IF ~shouldWait /\ waitGroup = 0
    THEN [config |-> config, err |-> "AsyncConfigError"]
    ELSE [config |-> [config EXCEPT !.shouldWait = shouldWait,
                                    !.waitGroup = IF waitGroup = 0 THEN @
                                                  ELSE waitGroup],
          err |-> "nil"]

\* ShouldWait as it would be if the two assignments came before the if.
ShouldWaitAssignsFirst(config, shouldWait, waitGroup) ==
    [config |-> [config EXCEPT !.shouldWait = shouldWait, !.waitGroup = waitGroup],
     err |-> IF ~shouldWait /\ waitGroup = 0 THEN "AsyncConfigError" ELSE "nil"]

\* The result is the config after the call and the error returned.
ShouldWait(config, shouldWait, waitGroup) ==
    IF ~shouldWait /\ waitGroup = 0
    THEN [config |-> config, err |-> "AsyncConfigError"]
    ELSE [config |-> [config EXCEPT !.shouldWait = shouldWait,
                                    !.waitGroup = waitGroup],
          err |-> "nil"]

\* The calls a configurer (or a test) makes on a Config.
ConfigCalls ==
    [op : {"ShouldAsync", "AsFacade"}, v : BOOLEAN, h : {0}]
        \cup [op : {"ShouldWait"}, v : BOOLEAN, h : {0} \cup ExtHandles]

ApplyCall(config, c) ==
    CASE c.op = "ShouldAsync" -> [config |-> ShouldAsync(config, c.v), err |-> "nil"]
      [] c.op = "AsFacade" -> [config |-> AsFacade(config, c.v), err |-> "nil"]
      [] c.op = "ShouldWait" -> ShouldWait(config, c.v, c.h)

\* newDefaultConfig(), as every config test begins
NewConfig ==
    /\ cfg' = newDefaultConfig
    /\ cfgRet' = [call |-> [op |-> "newDefaultConfig", v |-> FALSE, h |-> 0],
                  err |-> "nil", before |-> cfg]
    /\ UNCHANGED dispVars

ConfigCall(c) ==
    /\ cfg' = ApplyCall(cfg, c).config
    /\ cfgRet' = [call |-> c, err |-> ApplyCall(cfg, c).err, before |-> cfg]
    /\ UNCHANGED dispVars

-----------------------------------------------------------------------------
(* events.go *)

\* NewDispatcher as it would be if every configurer received a default Config
\* of its own and the dispatcher kept the one of the last configurer.
ApplyConfigurersEachFresh(config, configurers) ==
    IF configurers = <<>>
    THEN [config |-> config, rejected |-> FALSE]
    ELSE [config |-> ApplyCall(config, configurers[Len(configurers)]).config,
          rejected |-> \E i \in 1..Len(configurers) :
                          ApplyCall(config, configurers[i]).err # "nil"]

\* for _, configurer := range configurers { configurer(config) }: every
\* configurer makes one call on the shared config; rejected tells whether one
\* of the calls returned an error (which the configurer cannot pass on).
RECURSIVE ApplyConfigurers(_, _)
ApplyConfigurers(config, configurers) ==
    IF configurers = <<>>
    THEN [config |-> config, rejected |-> FALSE]
    ELSE LET r == ApplyCall(config, Head(configurers))
             rest == ApplyConfigurers(r.config, Tail(configurers))
         IN [config |-> rest.config,
             rejected |-> rest.rejected \/ r.err # "nil"]

CWait(v, h) == [op |-> "ShouldWait", v |-> v, h |-> h]
CFacade(v) == [op |-> "AsFacade", v |-> v, h |-> 0]

\* The configurers of the facade tests: none, and config.AsFacade(true).
FacadeConfigurers == {<<>>, <<CFacade(TRUE)>>}

ConfigurerSeqs ==
    UNION {[1..n -> ConfigCalls] : n \in 0..MaxConfigurers}

\* The configurers that leave isFacade alone.
DispatchConfigurers ==
    {cs \in ConfigurerSeqs : \A i \in 1..Len(cs) : cs[i].op # "AsFacade"}

\* NewDispatcher as it would be if the dispatchers without a WaitGroup of the
\* caller all used one WaitGroup of the package.
ResolveWaitGroupShared(config, d) ==
    IF config.waitGroup = 0 THEN NumExt + 1 ELSE config.waitGroup

\* waitGroup := config.waitGroup; if waitGroup == nil { new(sync.WaitGroup) }
ResolveWaitGroup(config, d) ==
    IF config.waitGroup = 0 THEN NumExt + d ELSE config.waitGroup

\* dispatcher := &Dispatcher{listeners: make(map...), config, waitGroup}
MakeDispatcher(config, d) ==
    [listeners |-> <<>>, config |-> config, waitGroup |-> ResolveWaitGroup(config, d)]

\* The publication as it would be if only an empty facade were set.
PublishFacadeOnce(config, d) == IF config.isFacade /\ facade = 0 THEN d ELSE facade

\* if config.isFacade { facade = dispatcher }
PublishFacade(config, d) == IF config.isFacade THEN d ELSE facade

Idle == call.pc = "idle"

\* n is the number of the Dispatch call (0 if it found no listener) and, for
\* NewDispatcher, the number of configurers; len is the number of listeners
\* the id had when Dispatch was called.
NoCall ==
    [op |-> "none", via |-> "direct", d |-> 0, id |-> "", l |-> "", n |-> 0, h |-> 0,
     len |-> 0,
     status |-> "returned", ret |-> 0, err |-> "nil", panic |-> "",
     rejected |-> FALSE]

NewDispatcher(configurers) ==
    /\ Idle
    /\ Len(dispatchers) < MaxDispatchers
    /\ LET r == ApplyConfigurers(newDefaultConfig, configurers)
           d == Len(dispatchers) + 1
       IN /\ dispatchers' = Append(dispatchers, MakeDispatcher(r.config, d))
          /\ facade' = PublishFacade(r.config, d)
          /\ regd' = Append(regd, <<>>)
          /\ lastCall' = [NoCall EXCEPT !.op = "NewDispatcher", !.d = d, !.ret = d,
                                        !.n = Len(configurers),
                                        !.rejected = r.rejected]
    /\ UNCHANGED <<cfg, cfgRet, owner, wg, call, gor, log, payload, ndisp>>

\* listeners, ok := dispatcher.listeners[id]
Lookup(listeners, id) == IF id \in DOMAIN listeners THEN listeners[id] ELSE <<>>

\* Dispatcher.Register as it would be if a listener already in the list of id
\* were not added again.
RegisterListenerOnce(listeners, id, listener) ==
    IF id \in DOMAIN listeners
    THEN IF \E i \in 1..Len(listeners[id]) : listeners[id][i] = listener
         THEN listeners
         ELSE [listeners EXCEPT ![id] = Append(@, listener)]
    ELSE [x \in DOMAIN listeners \cup {id} |->
            IF x = id THEN <<listener>> ELSE listeners[x]]

\* Dispatcher.Register, on the listeners map
RegisterListener(listeners, id, listener) ==
    IF id \in DOMAIN listeners
    THEN [listeners EXCEPT ![id] = Append(@, listener)]
    ELSE [x \in DOMAIN listeners \cup {id} |->
            IF x = id THEN <<listener>> ELSE listeners[x]]

RECURSIVE SumLen(_, _)
SumLen(listeners, ids) ==
    IF ids = {} THEN 0
    ELSE LET id == CHOOSE x \in ids : TRUE
         IN Len(listeners[id]) + SumLen(listeners, ids \ {id})

RECURSIVE Registered(_)
Registered(ds) ==
    IF ds = <<>> THEN 0
    ELSE SumLen(Head(ds).listeners, DOMAIN Head(ds).listeners) + Registered(Tail(ds))

\* Register as it would be if it passed the event dispatched last to the new
\* listener.
RegisterOnReplays(d, id, listener, via) ==
    /\ Registered(dispatchers) < MaxRegs
    /\ dispatchers' = [dispatchers EXCEPT
                         ![d].listeners = RegisterListener(@, id, listener)]
    /\ regd' = [regd EXCEPT ![d] = RegisterListener(@, id, listener)]
    /\ lastCall' = [NoCall EXCEPT !.op = "Register", !.via = via, !.d = d,
                                  !.id = id, !.l = listener, !.ret = d]
    /\ IF ndisp > 0
       THEN /\ log' = [log EXCEPT ![ndisp] = Append(@, [k |-> Len(@) + 1, l |-> listener])]
            /\ payload' = [payload EXCEPT ![ndisp][listener] = @ + 1]
       ELSE UNCHANGED <<log, payload>>
    /\ UNCHANGED <<cfg, cfgRet, owner, facade, wg, call, gor, ndisp>>

\* dispatcher.Register(id, listener), called by the caller directly or through
\* the package-level Register.
RegisterOn(d, id, listener, via) ==
    /\ Registered(dispatchers) < MaxRegs
    /\ dispatchers' = [dispatchers EXCEPT
                         ![d].listeners = RegisterListener(@, id, listener)]
    /\ regd' = [regd EXCEPT ![d] = RegisterListener(@, id, listener)]
    /\ lastCall' = [NoCall EXCEPT !.op = "Register", !.via = via, !.d = d,
                                  !.id = id, !.l = listener, !.ret = d]
    /\ UNCHANGED <<cfg, cfgRet, owner, facade, wg, call, gor, log, payload, ndisp>>

DispatcherRegister(d, id, listener) ==
    /\ Idle
    /\ d \in 1..Len(dispatchers)
    /\ RegisterOn(d, id, listener, "direct")

\* Dispatch as it would be without the early return: the loop runs no
\* iteration and the end of Dispatch (the wait) is reached.
DispatchOnAlwaysWaits(d, id, via) ==
    LET listeners == Lookup(dispatchers[d].listeners, id)
        n == IF listeners = <<>> THEN 0 ELSE ndisp + 1
    IN /\ listeners # <<>> => ndisp < Len(log)
       /\ ndisp' = IF listeners = <<>> THEN ndisp ELSE ndisp + 1
       /\ call' = [pc |-> IF listeners = <<>> THEN "wait" ELSE "loop", d |-> d,
                   id |-> id, queue |-> listeners, k |-> 1, n |-> n]
       /\ lastCall' = [NoCall EXCEPT !.op = "Dispatch", !.via = via, !.d = d,
                                     !.id = id, !.n = n, !.status = "running",
                                     !.len = Len(listeners)]
       /\ UNCHANGED <<cfg, cfgRet, owner, dispatchers, facade, wg, regd, gor, log,
                      payload>>

\* dispatcher.Dispatch(event) up to the loop: the lookup and the early return.
DispatchOn(d, id, via) ==
    LET listeners == Lookup(dispatchers[d].listeners, id)
    IN IF id \notin DOMAIN dispatchers[d].listeners \/ Len(listeners) = 0
       THEN /\ lastCall' = [NoCall EXCEPT !.op = "Dispatch", !.via = via, !.d = d,
                                          !.id = id, !.ret = d]
            /\ UNCHANGED <<cfg, cfgRet, owner, dispatchers, facade, wg, regd, call, gor,
                           log, payload, ndisp>>
       ELSE /\ ndisp < Len(log)
            /\ ndisp' = ndisp + 1
            /\ call' = [pc |-> "loop", d |-> d, id |-> id, queue |-> listeners,
                        k |-> 1, n |-> ndisp + 1]
            /\ lastCall' = [NoCall EXCEPT !.op = "Dispatch", !.via = via, !.d = d,
                                          !.id = id, !.n = ndisp + 1,
                                          !.status = "running",
                                          !.len = Len(listeners)]
            /\ UNCHANGED <<cfg, cfgRet, owner, dispatchers, facade, wg, regd, gor, log,
                           payload>>

DispatcherDispatch(d, id) ==
    /\ Idle
    /\ d \in 1..Len(dispatchers)
    /\ DispatchOn(d, id, "direct")

\* What a listener does to the data of the event it receives.
ListenerBody(n, listener) == [payload EXCEPT ![n][listener] = @ + 1]

LogEntry(k, listener) == [k |-> k, l |-> listener]

\* dispatchAsync as it would be if waitGroup.Add(1) were left to the goroutine:
\* the calling goroutine only runs the go statement.
dispatchAsyncAddsLater(d, n, k, listener) ==
    /\ gor' = gor \cup {[n |-> n, k |-> k, d |-> d, l |-> listener,
                         pc |-> "launched"]}
    /\ UNCHANGED <<wg, log, payload>>

\* dispatchAsync: waitGroup.Add(1), then the go statement.
dispatchAsync(d, n, k, listener) ==
    /\ wg' = [wg EXCEPT ![dispatchers[d].waitGroup] = @ + 1]
    /\ gor' = gor \cup {[n |-> n, k |-> k, d |-> d, l |-> listener,
                         pc |-> "launched"]}
    /\ UNCHANGED <<log, payload>>

\* listener(event) in the calling goroutine
CallListener(n, k, listener) ==
    /\ log' = [log EXCEPT ![n] = Append(@, LogEntry(k, listener))]
    /\ payload' = ListenerBody(n, listener)
    /\ UNCHANGED <<wg, gor>>

\* The loop as it would be if it ran over the listeners from the last one.
DispatchLoopBackwards ==
    /\ call.pc = "loop"
    /\ LET listener == call.queue[Len(call.queue) + 1 - call.k]
       IN IF dispatchers[call.d].config.isAsync
          THEN dispatchAsync(call.d, call.n, call.k, listener)
          ELSE CallListener(call.n, call.k, listener)
    /\ call' = IF call.k = Len(call.queue)
               THEN [call EXCEPT !.pc = "wait"]
               ELSE [call EXCEPT !.k = @ + 1]
    /\ UNCHANGED <<cfg, cfgRet, owner, dispatchers, facade, regd, ndisp, lastCall>>

\* One iteration of for _, listener := range listeners.
DispatchLoop ==
    /\ call.pc = "loop"
    /\ LET listener == call.queue[call.k]
       IN IF dispatchers[call.d].config.isAsync
          THEN dispatchAsync(call.d, call.n, call.k, listener)
          ELSE CallListener(call.n, call.k, listener)
    /\ call' = IF call.k = Len(call.queue)
               THEN [call EXCEPT !.pc = "wait"]
               ELSE [call EXCEPT !.k = @ + 1]
    /\ UNCHANGED <<cfg, cfgRet, owner, dispatchers, facade, regd, ndisp, lastCall>>

\* Dispatch as it would be without the call of waitGroup.Wait().
WaitDoneAtOnce(d) == TRUE

\* Dispatch as it would be if it called waitGroup.Wait() whatever shouldWait is.
WaitDoneAlways(d) == wg[dispatchers[d].waitGroup] = 0

\* Dispatch as it would be if it waited for the listeners its own dispatcher
\* launched and for nothing else.
WaitDoneForOwnListeners(d) ==
    dispatchers[d].config.shouldWait => {g \in gor : g.d = d} = {}

\* if dispatcher.config.shouldWait { dispatcher.waitGroup.Wait() }: Wait blocks
\* while the counter is not zero.
WaitDone(d) ==
    dispatchers[d].config.shouldWait => wg[dispatchers[d].waitGroup] = 0

\* ... return dispatcher
DispatchReturn ==
    /\ call.pc = "wait"
    /\ WaitDone(call.d)
    /\ call' = [pc |-> "idle"]
    /\ lastCall' = [lastCall EXCEPT !.status = "returned", !.ret = call.d]
    /\ UNCHANGED <<cfg, cfgRet, owner, dispatchers, facade, wg, regd, gor, log, payload,
                   ndisp>>

\* The goroutines as they would be if each waited for the goroutines of the
\* listeners before its own to finish.
GoStartInTurn(g) ==
    /\ g.pc = "launched"
    /\ \A x \in gor : x.n = g.n => x.k >= g.k
    /\ gor' = (gor \ {g}) \cup {[g EXCEPT !.pc = "running"]}
    /\ UNCHANGED <<cfg, cfgRet, owner, dispatchers, facade, wg, regd, call, log,
                   payload, ndisp, lastCall>>

\* The goroutine of dispatchAsync starts running listener(event).
GoStart(g) ==
    /\ g.pc = "launched"
    /\ gor' = (gor \ {g}) \cup {[g EXCEPT !.pc = "running"]}
    /\ UNCHANGED <<cfg, cfgRet, owner, dispatchers, facade, wg, regd, call, log,
                   payload, ndisp, lastCall>>

\* The goroutine as it would be without defer dispatcher.waitGroup.Done().
GoEndWithoutDone(g) ==
    /\ g.pc = "running"
    /\ gor' = gor \ {g}
    /\ payload' = ListenerBody(g.n, g.l)
    /\ log' = [log EXCEPT ![g.n] = Append(@, LogEntry(g.k, g.l))]
    /\ UNCHANGED <<cfg, cfgRet, owner, dispatchers, facade, wg, regd, call, ndisp,
                   lastCall>>

\* listener(event) finishes and the deferred waitGroup.Done() runs.
GoEnd(g) ==
    /\ g.pc = "running"
    /\ gor' = gor \ {g}
    /\ payload' = ListenerBody(g.n, g.l)
    /\ log' = [log EXCEPT ![g.n] = Append(@, LogEntry(g.k, g.l))]
    /\ wg' = [wg EXCEPT ![dispatchers[g.d].waitGroup] = @ - 1]
    /\ UNCHANGED <<cfg, cfgRet, owner, dispatchers, facade, regd, call, ndisp, lastCall>>

\* The iteration below as it would be if the loop ranged over
\* dispatcher.listeners[event.id] itself and not over the slice read before it.
DispatchLoopRegistersSeen(added) ==
    /\ call.pc = "loop"
    /\ ~dispatchers[call.d].config.isAsync
    /\ Registered(dispatchers) < MaxRegs
    /\ CallListener(call.n, call.k, call.queue[call.k])
    /\ dispatchers' = [dispatchers EXCEPT
                         ![call.d].listeners = RegisterListener(@, call.id, added)]
    /\ regd' = [regd EXCEPT ![call.d] = RegisterListener(@, call.id, added)]
    /\ call' = [call EXCEPT !.k = @ + 1, !.queue = Append(@, added)]
    /\ lastCall' = [lastCall EXCEPT !.l = added]
    /\ UNCHANGED <<cfg, cfgRet, owner, facade, ndisp>>

\* One iteration of the loop on a dispatcher with isAsync = false in which the
\* listener called registers the listener added under the id of the event, on
\* the same dispatcher: Register stores a longer slice in the map, and the loop
\* goes on over the slice it read from the map before its first iteration.
DispatchLoopRegisters(added) ==
    /\ call.pc = "loop"
    /\ ~dispatchers[call.d].config.isAsync
    /\ Registered(dispatchers) < MaxRegs
    /\ CallListener(call.n, call.k, call.queue[call.k])
    /\ dispatchers' = [dispatchers EXCEPT
                         ![call.d].listeners = RegisterListener(@, call.id, added)]
    /\ regd' = [regd EXCEPT ![call.d] = RegisterListener(@, call.id, added)]
    /\ call' = IF call.k = Len(call.queue)
               THEN [call EXCEPT !.pc = "wait"]
               ELSE [call EXCEPT !.k = @ + 1]
    /\ lastCall' = [lastCall EXCEPT !.l = added]
    /\ UNCHANGED <<cfg, cfgRet, owner, facade, ndisp>>

\* The iteration as it would be if Dispatch recovered the panic of a listener
\* and went on with the next one.
DispatchLoopRecovers ==
    /\ call.pc = "loop"
    /\ ~dispatchers[call.d].config.isAsync
    /\ call' = IF call.k = Len(call.queue)
               THEN [call EXCEPT !.pc = "wait"]
               ELSE [call EXCEPT !.k = @ + 1]
    /\ UNCHANGED <<cfg, cfgRet, owner, dispatchers, facade, wg, regd, gor, log, payload,
                   ndisp, lastCall>>

\* One iteration of the loop on a dispatcher with isAsync = false in which
\* listener(event) panics: Dispatch has no recover, so the stack unwinds
\* through it to its caller, which gets the panic in place of a result.
DispatchLoopPanics ==
    /\ call.pc = "loop"
    /\ ~dispatchers[call.d].config.isAsync
    /\ call' = [pc |-> "idle"]
    /\ lastCall' = [lastCall EXCEPT !.status = "panicked", !.panic = "listener panic",
                                    !.l = call.queue[call.k]]
    /\ UNCHANGED <<cfg, cfgRet, owner, dispatchers, facade, wg, regd, gor, log, payload,
                   ndisp>>

\* The program has not been ended by a panic in a goroutine.
Alive == call.pc # "crashed"

\* GoPanics as it would be if waitGroup.Done() were called after listener(event)
\* without defer.
GoPanicsSkipsDone(g) ==
    /\ Alive
    /\ g.pc = "running"
    /\ gor' = gor \ {g}
    /\ call' = [pc |-> "crashed"]
    /\ lastCall' = [lastCall EXCEPT !.status = "crashed", !.panic = "listener panic",
                                    !.l = g.l]
    /\ UNCHANGED <<cfg, cfgRet, owner, dispatchers, facade, wg, regd, log, payload,
                   ndisp>>

\* listener(event) panics in the goroutine of dispatchAsync: the deferred
\* waitGroup.Done() runs, and as nothing recovers the panic the program ends.
GoPanics(g) ==
    /\ Alive
    /\ g.pc = "running"
    /\ gor' = gor \ {g}
    /\ wg' = [wg EXCEPT ![dispatchers[g.d].waitGroup] = @ - 1]
    /\ call' = [pc |-> "crashed"]
    /\ lastCall' = [lastCall EXCEPT !.status = "crashed", !.panic = "listener panic",
                                    !.l = g.l]
    /\ UNCHANGED <<cfg, cfgRet, owner, dispatchers, facade, regd, log, payload, ndisp>>

\* A listener that runs in goroutine g calls dispatcher.Dispatch(event) itself,
\* on dispatcher d: the lookup and the early return, in the goroutine. The
\* goroutine keeps the position of that call in frame.
GoDispatchOn(g, d, id) ==
    LET listeners == Lookup(dispatchers[d].listeners, id)
    IN /\ g.pc = "running"
       /\ "frame" \notin DOMAIN g
       /\ d \in 1..Len(dispatchers)
       /\ IF id \notin DOMAIN dispatchers[d].listeners \/ Len(listeners) = 0
          THEN /\ gor' = (gor \ {g}) \cup
                      {[n |-> g.n, k |-> g.k, d |-> g.d, l |-> g.l, pc |-> "running",
                        frame |-> [pc |-> "returned", d |-> d, id |-> id, n |-> 0]]}
               /\ UNCHANGED ndisp
          ELSE /\ ndisp < Len(log)
               /\ ndisp' = ndisp + 1
               /\ gor' = (gor \ {g}) \cup
                      {[n |-> g.n, k |-> g.k, d |-> g.d, l |-> g.l, pc |-> "dispatching",
                        frame |-> [pc |-> "loop", d |-> d, id |-> id, n |-> ndisp + 1,
                                   queue |-> listeners, k |-> 1]]}
       /\ UNCHANGED <<cfg, cfgRet, owner, dispatchers, facade, wg, regd, call, log,
                      payload, lastCall>>

\* One iteration of the loop of a Dispatch called in goroutine g.
GoDispatchLoop(g) ==
    /\ g.pc = "dispatching"
    /\ g.frame.pc = "loop"
    /\ LET f == g.frame
           listener == f.queue[f.k]
           next == [g EXCEPT !.frame = IF f.k = Len(f.queue)
                                        THEN [f EXCEPT !.pc = "wait"]
                                        ELSE [f EXCEPT !.k = @ + 1]]
       IN IF dispatchers[f.d].config.isAsync
          THEN /\ wg' = [wg EXCEPT ![dispatchers[f.d].waitGroup] = @ + 1]
               /\ gor' = (gor \ {g}) \cup
                      {next, [n |-> f.n, k |-> f.k, d |-> f.d, l |-> listener,
                              pc |-> "launched"]}
               /\ UNCHANGED <<log, payload>>
          ELSE /\ log' = [log EXCEPT ![f.n] = Append(@, LogEntry(f.k, listener))]
               /\ payload' = ListenerBody(f.n, listener)
               /\ gor' = (gor \ {g}) \cup {next}
               /\ UNCHANGED wg
    /\ UNCHANGED <<cfg, cfgRet, owner, dispatchers, facade, regd, call, ndisp, lastCall>>

\* The end of a Dispatch called in goroutine g: the wait, and the return to the
\* listener that made the call.
GoDispatchReturn(g) ==
    /\ g.pc = "dispatching"
    /\ g.frame.pc = "wait"
    /\ WaitDone(g.frame.d)
    /\ gor' = (gor \ {g}) \cup
           {[g EXCEPT !.pc = "running",
                      !.frame = [pc |-> "returned", d |-> g.frame.d, id |-> g.frame.id,
                                 n |-> g.frame.n]]}
    /\ UNCHANGED <<cfg, cfgRet, owner, dispatchers, facade, wg, regd, call, log,
                   payload, ndisp, lastCall>>

\* The caller of the package owns the WaitGroups it hands to ShouldWait and may
\* use them for work of its own: waitGroup.Add(1) ...
OwnerAdd(h) ==
    /\ Idle
    /\ \E d \in 1..Len(dispatchers) : dispatchers[d].waitGroup = h
    /\ owner[h] < MaxOwnerAdds
    /\ owner' = [owner EXCEPT ![h] = @ + 1]
    /\ wg' = [wg EXCEPT ![h] = @ + 1]
    /\ UNCHANGED <<cfg, cfgRet, dispatchers, facade, regd, call, gor, log, payload,
                   ndisp, lastCall>>

\* ... and waitGroup.Done(), from the goroutine that does that work.
OwnerDone(h) ==
    /\ owner[h] > 0
    /\ owner' = [owner EXCEPT ![h] = @ - 1]
    /\ wg' = [wg EXCEPT ![h] = @ - 1]
    /\ UNCHANGED <<cfg, cfgRet, dispatchers, facade, regd, call, gor, log, payload,
                   ndisp, lastCall>>

\* ... and, in the end, waitGroup.Wait(), which returns once the counter is zero.
OwnerWait(h) ==
    /\ Idle
    /\ \E d \in 1..Len(dispatchers) : dispatchers[d].waitGroup = h
    /\ wg[h] = 0
    /\ lastCall' = [NoCall EXCEPT !.op = "Wait", !.h = h]
    /\ UNCHANGED <<cfg, cfgRet, owner, dispatchers, facade, wg, regd, call, gor, log,
                   payload, ndisp>>

\* panic("No facade registered")
PanicNoFacade(op, id, listener) ==
    /\ lastCall' = [NoCall EXCEPT !.op = op, !.via = "facade", !.id = id,
                                  !.l = listener, !.status = "panicked",
                                  !.panic = "No facade registered"]
    /\ UNCHANGED <<cfg, cfgRet, owner, dispatchers, facade, wg, regd, call, gor, log,
                   payload, ndisp>>

\* Register as it would be if it kept using the first dispatcher it was given.
RegisterOnFirst(id, listener) ==
    /\ Idle
    /\ IF facade = 0
       THEN PanicNoFacade("Register", id, listener)
       ELSE RegisterOn(1, id, listener, "facade")

\* Package-level Register
Register(id, listener) ==
    /\ Idle
    /\ IF facade = 0
       THEN PanicNoFacade("Register", id, listener)
       ELSE RegisterOn(facade, id, listener, "facade")

\* Dispatch as it would be without the test facade == nil: calling a method that
\* reads its fields on a nil *Dispatcher is a nil pointer dereference.
DispatchUnchecked(id) ==
    /\ Idle
    /\ IF facade = 0
       THEN /\ lastCall' = [NoCall EXCEPT
                              !.op = "Dispatch", !.via = "facade", !.id = id,
                              !.status = "panicked",
                              !.panic = "invalid memory address or nil pointer dereference"]
            /\ UNCHANGED <<cfg, cfgRet, owner, dispatchers, facade, wg, regd, call,
                           gor, log, payload, ndisp>>
       ELSE DispatchOn(facade, id, "facade")

\* Package-level Dispatch
Dispatch(id) ==
    /\ Idle
    /\ IF facade = 0
       THEN PanicNoFacade("Dispatch", id, "")
       ELSE DispatchOn(facade, id, "facade")

-----------------------------------------------------------------------------

Init ==
    /\ cfg = newDefaultConfig
    /\ cfgRet = [call |-> [op |-> "none", v |-> FALSE, h |-> 0], err |-> "nil",
                 before |-> newDefaultConfig]
    /\ dispatchers = <<>>
    /\ facade = 0
    /\ wg = [h \in Handles |-> 0]
    /\ owner = [h \in ExtHandles |-> 0]
    /\ regd = <<>>
    /\ call = [pc |-> "idle"]
    /\ gor = {}
    /\ log = [n \in 1..MaxCalls |-> <<>>]
    /\ payload = [n \in 1..MaxCalls |-> [l \in Listeners |-> 0]]
    /\ ndisp = 0
    /\ lastCall = NoCall

\* One dispatcher, built by any configurers of ShouldAsync and ShouldWait calls,
\* and its use through its handle.
Next ==
    \/ dispatchers = <<>> /\ \E cs \in DispatchConfigurers : NewDispatcher(cs)
    \/ \E id \in EventIds, l \in Listeners : DispatcherRegister(1, id, l)
    \/ \E id \in EventIds : DispatcherDispatch(1, id)
    \/ DispatchLoop
    \/ DispatchReturn
    \/ \E g \in gor : GoStart(g)
    \/ \E g \in gor : GoEnd(g)
    \/ \E h \in ExtHandles : OwnerAdd(h)
    \/ \E h \in ExtHandles : OwnerDone(h)

Spec == Init /\ [][Next]_vars

\* Several dispatchers, facades or not, used through their handles (to register
\* listenerB) and through the package-level functions (to register listenerA).
NextFacade ==
    \/ \E cs \in FacadeConfigurers : NewDispatcher(cs)
    \/ \E d \in 1..MaxDispatchers, id \in EventIds :
          DispatcherRegister(d, id, "listenerB")
    \/ \E d \in 1..MaxDispatchers, id \in EventIds : DispatcherDispatch(d, id)
    \/ \E id \in EventIds : Register(id, "listenerA")
    \/ \E id \in EventIds : Dispatch(id)
    \/ DispatchLoop
    \/ DispatchReturn

SpecFacade == Init /\ [][NextFacade]_vars

\* Construction alone, by any configurers.
NextBuild == \E cs \in ConfigurerSeqs : NewDispatcher(cs)

SpecBuild == Init /\ [][NextBuild]_vars

\* The configurers that end with isAsync = true.
AsyncConfigurers ==
    {cs \in DispatchConfigurers : ApplyConfigurers(newDefaultConfig, cs).config.isAsync}

\* One dispatcher that runs its listeners in goroutines, all registered under
\* one id, and a caller that waits for them on the WaitGroup it supplied.
NextAsync ==
    \/ dispatchers = <<>> /\ \E cs \in AsyncConfigurers : NewDispatcher(cs)
    \/ \E l \in Listeners : DispatcherRegister(1, "event a", l)
    \/ \E id \in EventIds : DispatcherDispatch(1, id)
    \/ DispatchLoop
    \/ DispatchReturn
    \/ \E g \in gor : GoStart(g)
    \/ \E g \in gor : GoEnd(g)
    \/ \E h \in ExtHandles : OwnerWait(h)

\* The scheduler runs every goroutine that can run: a goroutine that was
\* launched starts, and one that runs its listener gets to the end of it.
SpecAsync ==
    /\ Init
    /\ [][NextAsync]_vars
    /\ WF_vars(\E g \in gor : GoStart(g))
    /\ WF_vars(\E g \in gor : GoEnd(g))

\* The same, with a calling goroutine that the scheduler runs as well: it goes
\* through the loop of Dispatch and returns from it when it can.
SpecAsyncFair ==
    /\ SpecAsync
    /\ WF_vars(DispatchLoop)
    /\ WF_vars(DispatchReturn)

\* The configurers of the dispatcher tests: none, and config.ShouldAsync(true).
ModeConfigurers == {<<>>, <<[op |-> "ShouldAsync", v |-> TRUE, h |-> 0]>>}

\* As Init, with one more Dispatch call to explore.
InitRepeat ==
    /\ cfg = newDefaultConfig
    /\ cfgRet = [call |-> [op |-> "none", v |-> FALSE, h |-> 0], err |-> "nil",
                 before |-> newDefaultConfig]
    /\ dispatchers = <<>>
    /\ facade = 0
    /\ wg = [h \in Handles |-> 0]
    /\ owner = [h \in ExtHandles |-> 0]
    /\ regd = <<>>
    /\ call = [pc |-> "idle"]
    /\ gor = {}
    /\ log = [n \in 1..(MaxCalls + 1) |-> <<>>]
    /\ payload = [n \in 1..(MaxCalls + 1) |-> [l \in Listeners |-> 0]]
    /\ ndisp = 0
    /\ lastCall = NoCall

\* One dispatcher, synchronous or not, on which Register and Dispatch calls
\* alternate in any order.
NextRepeat ==
    \/ dispatchers = <<>> /\ \E cs \in ModeConfigurers : NewDispatcher(cs)
    \/ \E id \in EventIds, l \in Listeners : DispatcherRegister(1, id, l)
    \/ \E id \in EventIds : DispatcherDispatch(1, id)
    \/ DispatchLoop
    \/ DispatchReturn
    \/ \E g \in gor : GoStart(g)
    \/ \E g \in gor : GoEnd(g)

SpecRepeat == InitRepeat /\ [][NextRepeat]_vars

NextConfig ==
    \/ NewConfig
    \/ \E c \in ConfigCalls : ConfigCall(c)

SpecConfig == Init /\ [][NextConfig]_vars

\* One dispatcher whose listeners, all registered under one id, may panic.
NextFault ==
    \/ dispatchers = <<>> /\ \E cs \in DispatchConfigurers : NewDispatcher(cs)
    \/ \E l \in Listeners : DispatcherRegister(1, "event a", l)
    \/ DispatcherDispatch(1, "event a")
    \/ DispatchLoop
    \/ DispatchLoopPanics
    \/ DispatchReturn
    \/ Alive /\ \E g \in gor : GoStart(g)
    \/ Alive /\ \E g \in gor : GoEnd(g)
    \/ \E g \in gor : GoPanics(g)

SpecFault == Init /\ [][NextFault]_vars

\* The configurers of TestTriggersListenersAsync: config.ShouldAsync(true).
WaitingAsyncConfigurers == {<<[op |-> "ShouldAsync", v |-> TRUE, h |-> 0]>>}

\* Every dispatcher runs its listeners in goroutines, waits for them and has a
\* WaitGroup of its own.
AllWaitOnTheirOwn ==
    \A d \in 1..Len(dispatchers) :
        dispatchers[d].config = ShouldAsync(newDefaultConfig, TRUE)

\* The goroutines of the first Dispatch call.
FirstListeners == {g \in gor : g.n = 1}

\* The first dispatcher is built by any configurers, the others with
\* config.ShouldAsync(true); they are used when all of them run their
\* listeners in goroutines and wait for them on a WaitGroup of their own. The
\* caller dispatches on the first one; the listeners this starts call Dispatch
\* themselves, on their own dispatcher or on another one, and the listeners
\* that starts do not.
NextNested ==
    \/ \E cs \in WaitingAsyncConfigurers : NewDispatcher(cs)
    \/ dispatchers = <<>> /\ \E cs \in ConfigurerSeqs : NewDispatcher(cs)
    \/ AllWaitOnTheirOwn /\ \E d \in 1..MaxDispatchers :
          DispatcherRegister(d, "event a", "listenerA")
    \/ DispatcherDispatch(1, "event a")
    \/ DispatchLoop
    \/ DispatchReturn
    \/ \E g \in gor : GoStart(g)
    \/ \E g \in gor : GoEnd(g)
    \/ \E g \in FirstListeners, d \in 1..MaxDispatchers : GoDispatchOn(g, d, "event a")
    \/ \E g \in gor : GoDispatchLoop(g)
    \/ \E g \in gor : GoDispatchReturn(g)

SpecNested == InitRepeat /\ [][NextNested]_vars

\* One default dispatcher on which the caller registers listenerA, a listener
\* that may register listenerB while it runs.
NextReentrant ==
    \/ dispatchers = <<>> /\ NewDispatcher(<<>>)
    \/ \E id \in EventIds : DispatcherRegister(1, id, "listenerA")
    \/ \E id \in EventIds : DispatcherDispatch(1, id)
    \/ DispatchLoop
    \/ DispatchLoopRegisters("listenerB")
    \/ DispatchReturn

SpecReentrant == InitRepeat /\ [][NextReentrant]_vars

\* The configurers that make a dispatcher wait on the WaitGroup h of the
\* caller, with and without goroutines.
WaitingOn(h) ==
    {<<CWait(TRUE, h)>>, <<[op |-> "ShouldAsync", v |-> TRUE, h |-> 0], CWait(TRUE, h)>>}

\* Two dispatchers given the same WaitGroup by the caller: the first launches
\* goroutines and does not wait for them, the second waits. The caller also
\* counts work of its own on the WaitGroup. The caller builds both, then
\* registers, then dispatches, on the first dispatcher first.
NextShared ==
    \/ /\ dispatchers = <<>>
       /\ NewDispatcher(<<[op |-> "ShouldAsync", v |-> TRUE, h |-> 0], CWait(FALSE, 1)>>)
    \/ Len(dispatchers) = 1 /\ \E cs \in WaitingOn(1) : NewDispatcher(cs)
    \/ /\ Len(dispatchers) = 2 /\ ndisp = 0
       /\ \E d \in 1..2 : DispatcherRegister(d, "event a", "listenerA")
    \/ ndisp = 0 /\ DispatcherDispatch(1, "event a")
    \/ Len(dispatchers) = 2 /\ DispatcherDispatch(2, "event a")
    \/ DispatchLoop
    \/ DispatchReturn
    \/ \E g \in gor : GoStart(g)
    \/ \E g \in gor : GoEnd(g)
    \/ OwnerAdd(1)
    \/ OwnerDone(1)

SpecShared == InitRepeat /\ [][NextShared]_vars

\* One dispatcher, built by any configurers, and the registration of listeners
\* on it through its handle and through the package.
NextOrder ==
    \/ dispatchers = <<>> /\ \E cs \in ConfigurerSeqs : NewDispatcher(cs)
    \/ \E id \in EventIds, l \in Listeners : DispatcherRegister(1, id, l)
    \/ \E id \in EventIds, l \in Listeners : Register(id, l)

SpecOrder == Init /\ [][NextOrder]_vars

\* Config objects, in the hands of a test and in the hands of NewDispatcher.
NextSetup ==
    \/ NextConfig
    \/ dispatchers = <<>> /\ NextBuild

SpecSetup == Init /\ [][NextSetup]_vars

-----------------------------------------------------------------------------
(* Dispatcher.Dispatch *)

\* The listeners registered under id on dispatcher d, in the order of the
\* Register calls.
RegisteredUnder(d, id) == Lookup(regd[d], id)

\* The invocations of listeners ls, one after the other and in that order.
InOrder(ls) == [i \in 1..Len(ls) |-> LogEntry(i, ls[i])]

\* The data of an event after every listener of ls ran once on it.
AllApplied(ls) ==
    [l \in Listeners |-> Cardinality({i \in 1..Len(ls) : ls[i] = l})]

\* C1: on a dispatcher with isAsync = false, Dispatch runs the listeners
\* registered under the event's id, and only those, once each and in the order
\* they were registered: when the loop is about to call the k-th listener the
\* k-1 before it have returned and none is running, and when Dispatch returns
\* all have returned.
C1_SyncDispatchInOrder ==
    (lastCall.op = "Dispatch" /\ lastCall.n > 0
        /\ ~dispatchers[lastCall.d].config.isAsync) =>
        LET n == lastCall.n
            ls == RegisteredUnder(lastCall.d, lastCall.id)
        IN /\ \A g \in gor : g.n # n
           /\ lastCall.status = "returned" =>
                 /\ log[n] = InOrder(ls)
                 /\ payload[n] = AllApplied(ls)
           /\ lastCall.status = "running" =>
                 /\ call.pc \in {"loop", "wait"}
                 /\ log[n] = SubSeq(InOrder(ls), 1,
                                    IF call.pc = "loop" THEN call.k - 1 ELSE Len(ls))

\* A synchronous Dispatch returned after running listenerB, then listenerA.
C1_Witness ==
    /\ lastCall.op = "Dispatch" /\ lastCall.n > 0 /\ lastCall.status = "returned"
    /\ ~dispatchers[lastCall.d].config.isAsync
    /\ log[lastCall.n] = <<LogEntry(1, "listenerB"), LogEntry(2, "listenerA")>>

\* C2: on a dispatcher with isAsync = true, shouldWait = true and no WaitGroup
\* of the caller, once Dispatch has returned every listener registered under
\* the event's id has run exactly once and has returned, and the event's data
\* shows the effect of each.
C2_AsyncWaitAllDoneAtReturn ==
    (lastCall.op = "Dispatch" /\ lastCall.n > 0 /\ lastCall.status = "returned"
        /\ dispatchers[lastCall.d].config.isAsync
        /\ dispatchers[lastCall.d].config.shouldWait
        /\ dispatchers[lastCall.d].config.waitGroup = 0) =>
        LET n == lastCall.n
            ls == RegisteredUnder(lastCall.d, lastCall.id)
        IN /\ \A g \in gor : g.n # n
           /\ Len(log[n]) = Len(ls)
           /\ \A i \in 1..Len(ls) :
                 \E j \in 1..Len(log[n]) : log[n][j] = LogEntry(i, ls[i])
           /\ payload[n] = AllApplied(ls)

\* Such a Dispatch returned, and the second listener finished before the first.
C2_Witness ==
    /\ lastCall.op = "Dispatch" /\ lastCall.n > 0 /\ lastCall.status = "returned"
    /\ dispatchers[lastCall.d].config.isAsync
    /\ dispatchers[lastCall.d].config.shouldWait
    /\ dispatchers[lastCall.d].config.waitGroup = 0
    /\ log[lastCall.n] = <<LogEntry(2, "listenerB"), LogEntry(1, "listenerA")>>
    /\ payload[lastCall.n] = [l \in Listeners |-> 1]

\* C3: Dispatch of an id without listeners returns the dispatcher in the same
\* step, whatever the config and the WaitGroup counter: no listener runs, no
\* panic, and the listeners, the config, the counters and facade are unchanged.
C3_DispatchWithoutListenersIsNoOp ==
    [][\A d \in 1..Len(dispatchers), id \in EventIds :
         (Lookup(dispatchers[d].listeners, id) = <<>> /\ DispatcherDispatch(d, id)) =>
             /\ UNCHANGED <<dispatchers, facade, wg, owner, regd, call, gor, log,
                            payload, ndisp>>
             /\ call'.pc = "idle"
             /\ lastCall'.status = "returned"
             /\ lastCall'.ret = d
             /\ lastCall'.panic = ""]_vars

\* Such a Dispatch returned on a dispatcher that waits, has listeners under the
\* other id, and whose WaitGroup counter was not zero.
C3_Witness ==
    /\ lastCall.op = "Dispatch" /\ lastCall.n = 0 /\ lastCall.status = "returned"
    /\ lastCall.ret = lastCall.d
    /\ dispatchers[lastCall.d].config.shouldWait
    /\ wg[dispatchers[lastCall.d].waitGroup] > 0
    /\ DOMAIN dispatchers[lastCall.d].listeners = EventIds \ {lastCall.id}

\* The listener invocations the n-th Dispatch has made so far, finished or not:
\* the position in the list and the listener.
Invocations(n) ==
    {<<g.k, g.l>> : g \in {x \in gor : x.n = n}}
        \cup {<<log[n][i].k, log[n][i].l>> : i \in 1..Len(log[n])}

\* One invocation per position of the list ls.
OncePerPosition(ls) == {<<i, ls[i]>> : i \in 1..Len(ls)}

\* C13: a Register call runs no listener: the invocations of every Dispatch
\* made before, and the data of its event, are what they were; a Dispatch made
\* after it invokes each listener registered by then once, the new one
\* included, and on a dispatcher with isAsync = false in the order of the list,
\* the new one last.
C13_RegisterAffectsLaterDispatchesOnly ==
    /\ [][\A id \in EventIds, l \in Listeners :
            DispatcherRegister(1, id, l) =>
                /\ UNCHANGED <<call, gor, wg>>
                /\ \A n \in 1..Len(log) :
                      /\ Invocations(n)' = Invocations(n)
                      /\ log'[n] = log[n]
                      /\ payload'[n] = payload[n]]_vars
    /\ [][\A n \in 1..Len(log) :
            (n <= ndisp /\ (Idle \/ call.n # n)) =>
                /\ Invocations(n)' = Invocations(n)
                /\ Len(log'[n]) + Cardinality({g \in gor' : g.n = n})
                      = Cardinality(Invocations(n))]_vars
    /\ []((lastCall.op = "Dispatch" /\ lastCall.n > 0
              /\ lastCall.status = "returned") =>
             LET ls == RegisteredUnder(lastCall.d, lastCall.id)
             IN /\ Invocations(lastCall.n) = OncePerPosition(ls)
                /\ Len(log[lastCall.n]) + Cardinality({g \in gor : g.n = lastCall.n})
                      = Len(ls)
                /\ ~dispatchers[lastCall.d].config.isAsync =>
                      log[lastCall.n] = InOrder(ls))

\* A synchronous Dispatch ran listenerA; listenerB was then registered under
\* the same id; the next Dispatch of the id ran listenerA, then listenerB, and
\* the first event was touched by listenerA only.
C13_Witness ==
    /\ lastCall.op = "Dispatch" /\ lastCall.n = 2 /\ lastCall.status = "returned"
    /\ ~dispatchers[lastCall.d].config.isAsync
    /\ log[1] = <<LogEntry(1, "listenerA")>>
    /\ log[2] = <<LogEntry(1, "listenerA"), LogEntry(2, "listenerB")>>
    /\ payload[1] = [l \in Listeners |-> IF l = "listenerA" THEN 1 ELSE 0]
    /\ payload[2] = [l \in Listeners |-> 1]

\* The synchronous Dispatch calls that have returned.
ReturnedInTurn ==
    /\ lastCall.op = "Dispatch" /\ lastCall.n > 0
    /\ lastCall.status = "returned"
    /\ ~dispatchers[lastCall.d].config.isAsync

\* C23: when a listener run by a synchronous Dispatch registers listenerB
\* under the id of the event on the same dispatcher, listenerB is appended to
\* the list of the id and that step runs no listener but the registering one;
\* the Dispatch in progress returns having invoked, in order, exactly the
\* listeners the id had when it was called; and every Dispatch starts with all
\* the listeners registered by then, so the next one invokes listenerB.
C23_DispatchRunsTheListenersItStartedWith ==
    /\ [][DispatchLoopRegisters("listenerB") =>
            /\ RegisteredUnder(call.d, call.id)'
                  = Append(RegisteredUnder(call.d, call.id), "listenerB")
            /\ Lookup(dispatchers'[call.d].listeners, call.id)
                  = Append(Lookup(dispatchers[call.d].listeners, call.id), "listenerB")
            /\ Len(log'[call.n]) = Len(log[call.n]) + 1
            /\ lastCall'.len = lastCall.len]_vars
    /\ [](ReturnedInTurn =>
             /\ lastCall.len <= Len(RegisteredUnder(lastCall.d, lastCall.id))
             /\ log[lastCall.n]
                   = SubSeq(InOrder(RegisteredUnder(lastCall.d, lastCall.id)),
                            1, lastCall.len))
    /\ [][\A id \in EventIds :
            (DispatcherDispatch(1, id) /\ lastCall'.n > 0) =>
                lastCall'.len = Len(RegisteredUnder(1, id))]_vars

\* listenerB is registered by listeners only: the first Dispatch ran listenerA,
\* which registered listenerB, and did not run listenerB; the next Dispatch of
\* the id ran both.
C23_Witness ==
    /\ ReturnedInTurn /\ lastCall.n = 2 /\ lastCall.len = 2
    /\ regd[1] = dispatchers[1].listeners
    /\ RegisteredUnder(1, lastCall.id) = <<"listenerA", "listenerB">>
    /\ log[1] = <<LogEntry(1, "listenerA")>>
    /\ log[2] = <<LogEntry(1, "listenerA"), LogEntry(2, "listenerB")>>
    /\ payload[1] = [l \in Listeners |-> IF l = "listenerA" THEN 1 ELSE 0]

\* C20: on a dispatcher with isAsync = false, when the listener at position k
\* of the list panics, the Dispatch call ends with that panic and returns
\* nothing: the listeners before k have run once each, in order, the one at k
\* and those after it have not returned or run, no goroutine and no WaitGroup
\* is involved, and the call is over.
C20_ListenerPanicEndsDispatch ==
    /\ [][DispatchLoopPanics =>
            /\ lastCall'.status = "panicked"
            /\ lastCall'.panic = "listener panic"
            /\ lastCall'.l = call.queue[call.k]
            /\ lastCall'.ret = 0
            /\ call'.pc = "idle"
            /\ log'[call.n] = SubSeq(InOrder(call.queue), 1, call.k - 1)
            /\ UNCHANGED <<log, payload, gor, wg, dispatchers, facade>>]_vars
    /\ []((lastCall.op = "Dispatch" /\ lastCall.status = "panicked") =>
             LET n == lastCall.n
                 ls == RegisteredUnder(lastCall.d, lastCall.id)
                 k == Len(log[n]) + 1
             IN /\ k <= Len(ls)
                /\ ls[k] = lastCall.l
                /\ log[n] = SubSeq(InOrder(ls), 1, k - 1)
                /\ payload[n] = AllApplied(SubSeq(ls, 1, k - 1))
                /\ \A g \in gor : g.n # n
                /\ Idle)

\* The first of two listeners panicked: the Dispatch call ended with the panic
\* and the second listener was not called.
C20_Witness ==
    /\ lastCall.op = "Dispatch" /\ lastCall.status = "panicked"
    /\ Len(RegisteredUnder(lastCall.d, lastCall.id)) = 2
    /\ lastCall.l = RegisteredUnder(lastCall.d, lastCall.id)[1]
    /\ log[lastCall.n] = <<>>
    /\ payload[lastCall.n] = [l \in Listeners |-> 0]

-----------------------------------------------------------------------------
(* Dispatcher.Register *)

\* How many times listener l is in the list ls.
Occurrences(ls, l) == Cardinality({i \in 1..Len(ls) : ls[i] = l})

\* C17: Register(id, l) returns the dispatcher, without panic, and puts l at
\* the end of the list of id, which is created if id had none, whether l is in
\* the list already or not; the lists of the other ids, the config, the
\* WaitGroup and its counter are unchanged and no listener runs. A listener
\* that is k times in the list is called k times by a synchronous Dispatch.
C17_RegisterAppends ==
    /\ [][\A id \in EventIds, l \in Listeners :
            DispatcherRegister(1, id, l) =>
                /\ id \in DOMAIN dispatchers'[1].listeners
                /\ dispatchers'[1].listeners[id]
                      = Append(Lookup(dispatchers[1].listeners, id), l)
                /\ DOMAIN dispatchers'[1].listeners
                      = DOMAIN dispatchers[1].listeners \cup {id}
                /\ \A other \in DOMAIN dispatchers[1].listeners \ {id} :
                      dispatchers'[1].listeners[other] = dispatchers[1].listeners[other]
                /\ dispatchers'[1].config = dispatchers[1].config
                /\ dispatchers'[1].waitGroup = dispatchers[1].waitGroup
                /\ UNCHANGED <<wg, gor, log, payload, call, facade>>
                /\ lastCall'.status = "returned"
                /\ lastCall'.ret = 1
                /\ lastCall'.panic = ""]_vars
    /\ []((lastCall.op = "Dispatch" /\ lastCall.n > 0 /\ lastCall.status = "returned"
              /\ ~dispatchers[lastCall.d].config.isAsync) =>
             \A l \in Listeners :
                 /\ Occurrences([i \in 1..Len(log[lastCall.n]) |-> log[lastCall.n][i].l], l)
                       = Occurrences(dispatchers[lastCall.d].listeners[lastCall.id], l)
                 /\ payload[lastCall.n][l]
                       = Occurrences(dispatchers[lastCall.d].listeners[lastCall.id], l))

\* listenerA was registered twice under an id and a synchronous Dispatch of the
\* id called it twice.
C17_Witness ==
    /\ lastCall.op = "Dispatch" /\ lastCall.n > 0 /\ lastCall.status = "returned"
    /\ ~dispatchers[lastCall.d].config.isAsync
    /\ dispatchers[lastCall.d].listeners[lastCall.id] = <<"listenerA", "listenerA">>
    /\ log[lastCall.n] = <<LogEntry(1, "listenerA"), LogEntry(2, "listenerA")>>
    /\ payload[lastCall.n]["listenerA"] = 2

-----------------------------------------------------------------------------
(* dispatchAsync *)

\* The n-th Dispatch that found listeners was made and has returned.
DispatchDone(n) == ndisp >= n /\ (Idle \/ call.n # n)

\* The goroutines of the n-th Dispatch that have not finished.
Pending(n) == {g \in gor : g.n = n}

\* The calling goroutine is at the end of the loop of a Dispatch on a
\* dispatcher with isAsync = true and shouldWait = false.
AtEndOfNoWaitDispatch ==
    /\ call.pc = "wait"
    /\ dispatchers[call.d].config.isAsync
    /\ ~dispatchers[call.d].config.shouldWait

\* C11: on a dispatcher with isAsync = true and shouldWait = false, Dispatch
\* returns once the loop has launched the goroutines, however many of them are
\* still running; the goroutines that run at the return all get to the end of
\* their listener afterwards, each once.
C11_NoWaitDispatchReturnsAtOnce ==
    /\ [](AtEndOfNoWaitDispatch => ENABLED DispatchReturn)
    /\ [][\A n \in 1..MaxCalls :
            DispatchDone(n) =>
                /\ Pending(n)' \subseteq Pending(n) \cup {[g EXCEPT !.pc = "running"] : g \in Pending(n)}
                /\ Cardinality(Pending(n)') + Len(log'[n])
                      = Cardinality(Pending(n)) + Len(log[n])]_vars
    /\ \A n \in 1..MaxCalls : DispatchDone(n) ~> (Pending(n) = {})

\* Such a Dispatch returned while neither of its two listeners had finished:
\* one goroutine is inside its listener, the other has not started.
C11_Witness ==
    /\ lastCall.op = "Dispatch" /\ lastCall.n > 0 /\ lastCall.status = "returned"
    /\ dispatchers[lastCall.d].config.isAsync
    /\ ~dispatchers[lastCall.d].config.shouldWait
    /\ log[lastCall.n] = <<>>
    /\ \E g1, g2 \in Pending(lastCall.n) :
          g1.pc = "running" /\ g2.pc = "launched"

\* The goroutines started by dispatchAsync that will call Done on WaitGroup h.
PendingOn(h) == {g \in gor : dispatchers[g.d].waitGroup = h}

\* C18: the counter of every WaitGroup is the number of goroutines started by
\* dispatchAsync on it that have not finished, and so never negative; it goes
\* up by 1 in the loop of Dispatch, together with the launch of one goroutine
\* that has not started its listener, and down by 1 when one goroutine that was
\* running its listener ends, by return or by panic.
C18_CounterIsUnfinishedListeners ==
    /\ [](\A h \in Handles : wg[h] = Cardinality(PendingOn(h)) /\ wg[h] >= 0)
    /\ [][\A h \in Handles :
            /\ wg'[h] \in {wg[h] - 1, wg[h], wg[h] + 1}
            /\ wg'[h] = wg[h] + 1 =>
                  /\ call.pc = "loop"
                  /\ \E g \in gor' :
                        /\ gor' = gor \cup {g} /\ g \notin gor
                        /\ g.pc = "launched"
                        /\ dispatchers[g.d].waitGroup = h
            /\ wg'[h] = wg[h] - 1 =>
                  \E g \in gor :
                      /\ gor' = gor \ {g}
                      /\ g.pc = "running"
                      /\ dispatchers[g.d].waitGroup = h]_vars

\* A listener panicked in its goroutine while the goroutine of another listener
\* of the same Dispatch had not finished: the counter is 1.
C18_Witness ==
    /\ lastCall.op = "Dispatch" /\ lastCall.status = "crashed"
    /\ Cardinality(gor) = 1
    /\ wg[dispatchers[lastCall.d].waitGroup] = 1

\* C12: on a dispatcher with isAsync = true and shouldWait = false, when the
\* loop of Dispatch has ended the dispatcher's WaitGroup has been added 1 for
\* every listener of the dispatch that has not finished, so from the return of
\* Dispatch on the counter is at least the number of its unfinished listeners,
\* and a waitGroup.Wait() of the caller returns only when none is left.
C12_CounterCoversLaunchedListeners ==
    /\ AtEndOfNoWaitDispatch =>
          /\ Cardinality(Pending(call.n)) + Len(log[call.n]) = Len(call.queue)
          /\ wg[dispatchers[call.d].waitGroup] >= Cardinality(Pending(call.n))
    /\ \A d \in 1..Len(dispatchers) :
          (dispatchers[d].config.isAsync /\ ~dispatchers[d].config.shouldWait) =>
              /\ wg[dispatchers[d].waitGroup]
                    >= Cardinality(PendingOn(dispatchers[d].waitGroup))
              /\ (lastCall.op = "Wait" /\ lastCall.h = dispatchers[d].waitGroup) =>
                    /\ PendingOn(lastCall.h) = {}
                    /\ \A n \in 1..ndisp : Pending(n) = {}

\* The caller's Wait returned after a Dispatch that did not wait for its two
\* listeners; both have finished.
C12_Witness ==
    /\ lastCall.op = "Wait"
    /\ Len(dispatchers) = 1 /\ dispatchers[1].waitGroup = lastCall.h
    /\ dispatchers[1].config.isAsync /\ ~dispatchers[1].config.shouldWait
    /\ ndisp >= 1 /\ Len(log[1]) = 2

\* C19: on a dispatcher with isAsync = true the loop of Dispatch launches one
\* goroutine per listener, in the order of the list: when it is at position k
\* the listeners before k, and only those, have a goroutine or have finished.
\* Nothing orders the goroutines after that: whatever the others do, each one
\* that was launched can start its listener and each one that runs can be the
\* next to finish, so every order of completion can happen.
C19_LaunchInOrderFinishInAny ==
    /\ (call.pc \in {"loop", "wait"} /\ dispatchers[call.d].config.isAsync) =>
          Invocations(call.n) =
              {<<i, call.queue[i]>> :
                 i \in 1..(IF call.pc = "loop" THEN call.k - 1 ELSE Len(call.queue))}
    /\ \A g \in gor :
          /\ g.pc = "launched" => ENABLED GoStart(g)
          /\ g.pc = "running" => ENABLED GoEnd(g)
          /\ (g.pc = "launched" /\ \E x \in gor : x.n = g.n /\ x.k < g.k) =>
                ENABLED (GoStart(g) /\ \E x \in gor' : x.n = g.n /\ x.k < g.k)

\* Both listeners of a Dispatch that did not wait have finished, the second
\* one first.
C19_Witness ==
    /\ ndisp >= 1
    /\ dispatchers[1].config.isAsync /\ ~dispatchers[1].config.shouldWait
    /\ Len(log[1]) = 2 /\ log[1][1].k = 2 /\ log[1][2].k = 1
    /\ Pending(1) = {}

\* The calling goroutine is inside Dispatch on a dispatcher with isAsync = true
\* and shouldWait = true.
InWaitingDispatch ==
    /\ call.pc \in {"loop", "wait"}
    /\ dispatchers[call.d].config.isAsync
    /\ dispatchers[call.d].config.shouldWait

\* C21: on a dispatcher with isAsync = true and shouldWait = true, Dispatch
\* cannot return while a goroutine it launched has not finished, and returns
\* with none left; when every goroutine gets to run and every listener ends,
\* the Dispatch call returns.
C21_WaitingDispatchReturnsWhenListenersEnd ==
    /\ []((InWaitingDispatch /\ Pending(call.n) # {}) => ~ENABLED DispatchReturn)
    /\ [][(InWaitingDispatch /\ DispatchReturn) =>
            /\ Pending(call.n) = {}
            /\ Pending(call.n)' = {}
            /\ wg[dispatchers[call.d].waitGroup] = 0]_vars
    /\ InWaitingDispatch ~> (Idle /\ lastCall.status = "returned")

\* Such a Dispatch returned on a dispatcher that uses a WaitGroup of the caller,
\* after its two listeners finished.
C21_Witness ==
    /\ lastCall.op = "Dispatch" /\ lastCall.n > 0 /\ lastCall.status = "returned"
    /\ dispatchers[lastCall.d].config.isAsync
    /\ dispatchers[lastCall.d].config.shouldWait
    /\ dispatchers[lastCall.d].config.waitGroup \in ExtHandles
    /\ Len(log[lastCall.n]) = 2
    /\ Pending(lastCall.n) = {}

-----------------------------------------------------------------------------
(* The WaitGroup of a dispatcher *)

\* Dispatcher d was built without a WaitGroup of the caller.
OwnWaitGroup(d) == dispatchers[d].config.waitGroup = 0

\* The goroutines started by Dispatch calls on dispatcher d.
LaunchedBy(d) == {g \in gor : g.d = d}

\* C22: every Dispatcher has a WaitGroup: the one of its config if the config has
\* one, otherwise one that NewDispatcher allocates, which is no WaitGroup of
\* the caller and of no other dispatcher and whose counter is zero when the
\* dispatcher is returned. So a Dispatch on a dispatcher with a WaitGroup of its
\* own, wherever it is called, can return as soon as the goroutines started on
\* that dispatcher have finished, whatever the goroutines of the others do.
C22_DispatcherHasItsOwnWaitGroup ==
    /\ [](\A d \in 1..Len(dispatchers) :
            /\ dispatchers[d].waitGroup # 0
            /\ ~OwnWaitGroup(d) =>
                  dispatchers[d].waitGroup = dispatchers[d].config.waitGroup
            /\ OwnWaitGroup(d) =>
                  /\ dispatchers[d].waitGroup \notin ExtHandles
                  /\ \A e \in 1..Len(dispatchers) :
                        e # d => dispatchers[e].waitGroup # dispatchers[d].waitGroup)
    /\ [][Len(dispatchers') > Len(dispatchers) =>
            (dispatchers'[Len(dispatchers')].config.waitGroup = 0 =>
                /\ wg[dispatchers'[Len(dispatchers')].waitGroup] = 0
                /\ wg'[dispatchers'[Len(dispatchers')].waitGroup] = 0)]_vars
    /\ []((call.pc = "wait" /\ OwnWaitGroup(call.d) /\ LaunchedBy(call.d) = {})
             => ENABLED DispatchReturn)
    /\ [](\A g \in gor :
            (/\ g.pc = "dispatching" /\ g.frame.pc = "wait"
             /\ OwnWaitGroup(g.frame.d) /\ LaunchedBy(g.frame.d) = {})
                => ENABLED GoDispatchReturn(g))

\* A listener started by a Dispatch on the first dispatcher called Dispatch on
\* the second, and that call returned after running its listener, while the
\* caller's Dispatch on the first still waits for this listener to end.
C22_Witness ==
    /\ call.pc = "wait" /\ call.d = 1
    /\ OwnWaitGroup(1) /\ Len(dispatchers) >= 2 /\ OwnWaitGroup(2)
    /\ \E g \in gor :
          /\ g.d = 1 /\ g.pc = "running" /\ "frame" \in DOMAIN g
          /\ g.frame.pc = "returned" /\ g.frame.d = 2 /\ g.frame.n > 0
          /\ Len(log[g.frame.n]) = 1

\* The listener of goroutine g is inside a Dispatch call it made on the
\* dispatcher that started it, which runs listeners in goroutines and waits.
InNestedDispatch(g) ==
    /\ g.pc = "dispatching"
    /\ g.frame.d = g.d
    /\ dispatchers[g.d].config.isAsync
    /\ dispatchers[g.d].config.shouldWait

\* C24: on a dispatcher with isAsync = true and shouldWait = true, a listener
\* that calls Dispatch on the same dispatcher, for an id that has listeners,
\* stays inside that call for ever: the counter of the WaitGroup includes the
\* calling listener, whose Done comes after the call, so it is never zero, the
\* inner call cannot return, and neither can the Dispatch that started the
\* listener.
C24_NestedDispatchNeverReturns ==
    /\ [](\A g \in gor :
            InNestedDispatch(g) =>
                /\ wg[dispatchers[g.d].waitGroup] >= 1
                /\ ~ENABLED GoDispatchReturn(g)
                /\ ~ENABLED GoEnd(g)
                /\ (call.pc \in {"loop", "wait"} /\ call.n = g.n) =>
                      ~ENABLED DispatchReturn)
    /\ [][\A g \in gor :
            InNestedDispatch(g) =>
                /\ \E x \in gor' : x.n = g.n /\ x.k = g.k /\ InNestedDispatch(x)'
                /\ (call.pc \in {"loop", "wait"} /\ call.n = g.n) =>
                      (call'.pc \in {"loop", "wait"} /\ call'.n = g.n)]_vars

\* The deadlock: the caller waits in Dispatch for its listener, the listener
\* waits in the Dispatch it called, whose own listener has finished, and no
\* other goroutine is left.
C24_Witness ==
    /\ call.pc = "wait"
    /\ \E g \in gor :
          /\ gor = {g}
          /\ InNestedDispatch(g) /\ g.frame.pc = "wait"
          /\ g.n = call.n
          /\ Len(log[g.frame.n]) = 1
          /\ wg[dispatchers[g.d].waitGroup] = 1

\* The dispatcher d waits at the end of Dispatch, on a WaitGroup of the caller.
WaitsOnSupplied(d) ==
    /\ dispatchers[d].config.shouldWait
    /\ dispatchers[d].config.waitGroup # 0

\* C25: a dispatcher with shouldWait = true that was given a WaitGroup uses
\* that WaitGroup; its Dispatch, past its loop, cannot return while a listener
\* of any dispatcher that counts on the WaitGroup is unfinished or a count of
\* the owner is not yet done; and when it returns, the counter is zero, no
\* such listener is unfinished and no count of the owner is left.
C25_WaitCoversTheWholeWaitGroup ==
    /\ [](\A d \in 1..Len(dispatchers) :
             WaitsOnSupplied(d) =>
                 /\ dispatchers[d].waitGroup = dispatchers[d].config.waitGroup
                 /\ dispatchers[d].waitGroup \in ExtHandles)
    /\ []((call.pc = "wait" /\ WaitsOnSupplied(call.d)) =>
             LET h == dispatchers[call.d].waitGroup
             IN (PendingOn(h) # {} \/ owner[h] > 0) => ~ENABLED DispatchReturn)
    /\ [][(DispatchReturn /\ WaitsOnSupplied(call.d)) =>
             LET h == dispatchers[call.d].waitGroup
             IN /\ wg[h] = 0
                /\ PendingOn(h) = {}
                /\ owner[h] = 0]_vars

\* The Dispatch of a dispatcher that runs its listeners in turn has run them
\* all and is held by the WaitGroup it was given, on which a listener launched
\* by the other dispatcher and a count of the owner are left.
C25_Witness ==
    /\ call.pc = "wait" /\ WaitsOnSupplied(call.d)
    /\ ~dispatchers[call.d].config.isAsync
    /\ Len(log[call.n]) = lastCall.len
    /\ owner[dispatchers[call.d].waitGroup] > 0
    /\ \E g \in gor :
          /\ g.d # call.d
          /\ dispatchers[g.d].waitGroup = dispatchers[call.d].waitGroup
    /\ ~ENABLED DispatchReturn

-----------------------------------------------------------------------------
(* The facade *)

\* The package-level functions leave everything but their own outcome alone.
OnlyOutcome ==
    UNCHANGED <<dispatchers, facade, wg, owner, regd, call, gor, log, payload, ndisp>>

\* C7: while facade is nil, and it is nil as long as no dispatcher was built
\* with isFacade = true, the package-level Register and Dispatch panic with
\* "No facade registered"; no dispatcher's listeners change and no listener
\* runs.
C7_NoFacadePanics ==
    /\ []((\A d \in 1..Len(dispatchers) : ~dispatchers[d].config.isFacade)
            => facade = 0)
    /\ [][\A id \in EventIds, l \in Listeners :
            (facade = 0 /\ (Register(id, l) \/ Dispatch(id))) =>
                /\ lastCall'.status = "panicked"
                /\ lastCall'.panic = "No facade registered"
                /\ lastCall'.ret = 0
                /\ OnlyOutcome]_vars

\* The package-level Dispatch panicked for an id that has a listener on each of
\* the dispatchers built so far, none of them a facade.
C7_Witness ==
    /\ lastCall.op = "Dispatch" /\ lastCall.status = "panicked"
    /\ facade = 0
    /\ Len(dispatchers) >= 2
    /\ \A d \in 1..Len(dispatchers) : lastCall.id \in DOMAIN dispatchers[d].listeners
    /\ \A n \in 1..MaxCalls : log[n] = <<>>

\* C8: while a dispatcher occupies facade, a step of the package-level Register
\* (Dispatch) is the step Dispatcher.Register (Dispatcher.Dispatch) makes on
\* that dispatcher: same listeners, same continuation of the call, and the
\* occupant is what the call returns; a package-level Dispatch that returned
\* has run the listeners registered on the occupant under that id.
C8_FacadeCallsActOnOccupant ==
    /\ [][\A id \in EventIds, l \in Listeners :
            facade # 0 =>
                /\ Register(id, l) =>
                      (RegisterOn(facade, id, l, "facade") /\ lastCall'.ret = facade)
                /\ Dispatch(id) => DispatchOn(facade, id, "facade")]_vars
    /\ []((lastCall.via = "facade" /\ lastCall.status = "returned") =>
            /\ lastCall.d = facade
            /\ lastCall.ret = facade
            /\ (lastCall.op = "Dispatch" /\ lastCall.n > 0) =>
                  log[lastCall.n] = InOrder(RegisteredUnder(facade, lastCall.id)))

\* The package-level Dispatch returned the second dispatcher, the facade, after
\* running the listener registered on it through the package-level Register;
\* the first dispatcher has another listener under the same id.
C8_Witness ==
    /\ lastCall.op = "Dispatch" /\ lastCall.via = "facade"
    /\ lastCall.status = "returned" /\ lastCall.n > 0
    /\ facade = 2 /\ lastCall.ret = 2
    /\ Lookup(dispatchers[1].listeners, lastCall.id) = <<"listenerB">>
    /\ Lookup(dispatchers[2].listeners, lastCall.id) = <<"listenerA">>
    /\ log[lastCall.n] = <<LogEntry(1, "listenerA")>>

\* The dispatcher built last among those built with isFacade = true; 0 if none.
LatestFacade ==
    LET built == {d \in 1..Len(dispatchers) : dispatchers[d].config.isFacade}
    IN IF built = {} THEN 0 ELSE CHOOSE d \in built : \A e \in built : e <= d

\* C9: facade is the dispatcher built last with isFacade = true (nil if there
\* is none); building one with isFacade = false leaves facade alone; building
\* any dispatcher leaves those that exist, a replaced facade too, as they are.
C9_FacadeIsLatestFacadeDispatcher ==
    /\ [](facade = LatestFacade)
    /\ [][Len(dispatchers') > Len(dispatchers) =>
            /\ ~dispatchers'[Len(dispatchers')].config.isFacade => facade' = facade
            /\ \A d \in 1..Len(dispatchers) : dispatchers'[d] = dispatchers[d]]_vars

\* The first dispatcher was the facade and was replaced by the second; after
\* that a listener was registered on it through its handle, next to the one
\* it had got through the package-level Register.
C9_Witness ==
    /\ Len(dispatchers) = 2 /\ facade = 2
    /\ dispatchers[1].config.isFacade /\ dispatchers[2].config.isFacade
    /\ lastCall.op = "Register" /\ lastCall.via = "direct" /\ lastCall.d = 1
    /\ dispatchers[1].listeners[lastCall.id] = <<"listenerA", "listenerB">>

-----------------------------------------------------------------------------
(* NewDispatcher *)

\* C14: NewDispatcher() without configurers returns a dispatcher and no error;
\* the dispatcher has no listeners, the config isAsync = false, isFacade =
\* false, shouldWait = true, waitGroup = nil, and a WaitGroup of its own; the
\* facade variable is not set by it.
C14_DefaultDispatcher ==
    /\ [][NewDispatcher(<<>>) => facade' = facade]_vars
    /\ []((lastCall.op = "NewDispatcher" /\ lastCall.n = 0) =>
             /\ lastCall.err = "nil"
             /\ lastCall.ret = lastCall.d
             /\ lastCall.d = Len(dispatchers)
             /\ dispatchers[lastCall.d].listeners = <<>>
             /\ dispatchers[lastCall.d].config =
                   [isAsync |-> FALSE, isFacade |-> FALSE, shouldWait |-> TRUE,
                    waitGroup |-> 0]
             /\ dispatchers[lastCall.d].waitGroup \notin ExtHandles \cup {0}
             /\ \A d \in 1..Len(dispatchers) :
                   d # lastCall.d =>
                       dispatchers[d].waitGroup # dispatchers[lastCall.d].waitGroup)

\* NewDispatcher() was called after a dispatcher had been built as facade, not
\* waiting, with a WaitGroup of the caller.
C14_Witness ==
    /\ lastCall.op = "NewDispatcher" /\ lastCall.n = 0 /\ lastCall.d = 2
    /\ dispatchers[1].config.isFacade /\ ~dispatchers[1].config.shouldWait
    /\ facade = 1

\* The position of the last configurer of cs that makes a call of P; 0 if none.
LastCallOf(cs, P(_)) ==
    LET made == {i \in 1..Len(cs) : P(cs[i])}
    IN IF made = {} THEN 0 ELSE CHOOSE i \in made : \A j \in made : j <= i

IsShouldAsync(c) == c.op = "ShouldAsync"
IsAsFacade(c) == c.op = "AsFacade"
IsAcceptedWait(c) == c.op = "ShouldWait" /\ (c.v \/ c.h # 0)

\* Field by field, the value set by the last call that sets it, the default
\* value if there is none.
LastSetWins(cs) ==
    LET a == LastCallOf(cs, IsShouldAsync)
        f == LastCallOf(cs, IsAsFacade)
        w == LastCallOf(cs, IsAcceptedWait)
    IN [isAsync |-> IF a = 0 THEN FALSE ELSE cs[a].v,
        isFacade |-> IF f = 0 THEN FALSE ELSE cs[f].v,
        shouldWait |-> IF w = 0 THEN TRUE ELSE cs[w].v,
        waitGroup |-> IF w = 0 THEN 0 ELSE cs[w].h]

\* C16: the config of the dispatcher NewDispatcher(cs) returns is the default
\* Config after the calls of cs, made one after the other on that one Config:
\* each field has the value of the last call that set it (a rejected ShouldWait
\* sets nothing), the facade variable follows the final isFacade, and the
\* config stays what it is while the dispatcher is used.
C16_ConfigurersApplyInOrder ==
    /\ [][(dispatchers = <<>> /\ dispatchers' # <<>>) =>
            \A cs \in ConfigurerSeqs :
                NewDispatcher(cs) =>
                    /\ dispatchers'[1].config = LastSetWins(cs)
                    /\ facade' = IF LastSetWins(cs).isFacade THEN 1 ELSE 0]_vars
    /\ [][dispatchers # <<>> => dispatchers'[1].config = dispatchers[1].config]_vars

\* A dispatcher was built by two configurers, one of which made a rejected call
\* of ShouldWait, and does not wait: the accepted ShouldWait(false, waitGroup)
\* of the other configurer is in effect.
C16_Witness ==
    /\ lastCall.op = "NewDispatcher" /\ lastCall.n = 2 /\ lastCall.rejected
    /\ ~dispatchers[1].config.shouldWait
    /\ dispatchers[1].config.waitGroup \in ExtHandles

\* One of the configurers calls config.ShouldWait(false, nil).
CallsRejectedWait(configurers) ==
    \E i \in 1..Len(configurers) : configurers[i] = CWait(FALSE, 0)

\* C4: NewDispatcher with a configurer that calls ShouldWait(false, nil) returns
\* an AsyncConfigError and no Dispatcher.
C4_RejectedWaitFailsConstruction ==
    (lastCall.op = "NewDispatcher" /\ lastCall.rejected) =>
        /\ lastCall.err = "AsyncConfigError"
        /\ lastCall.ret = 0

\* C10: a NewDispatcher whose configurers call ShouldWait(false, nil) (with or
\* without AsFacade(true)) fails without side effects: the facade variable
\* and the dispatchers that exist are as before the call.
C10_FailedConstructionChangesNothing ==
    [][\A cs \in ConfigurerSeqs :
         (CallsRejectedWait(cs) /\ NewDispatcher(cs)) =>
             /\ facade' = facade
             /\ dispatchers' = dispatchers]_vars

-----------------------------------------------------------------------------
(* Config *)

\* shouldWait = false requires a WaitGroup.
ValidConfig(config) == ~config.shouldWait => config.waitGroup # 0

-----------------------------------------------------------------------------
(* Config.ShouldWait *)

C6_AcceptedWaitStoresBoth ==
    (cfgRet.call.op = "ShouldWait" /\ (cfgRet.call.v \/ cfgRet.call.h # 0)) =>
        /\ cfgRet.err = "nil"
        /\ cfg.shouldWait = cfgRet.call.v
        /\ cfg.waitGroup = cfgRet.call.h
        /\ cfg.isAsync = cfgRet.before.isAsync
        /\ cfg.isFacade = cfgRet.before.isFacade

\* ShouldWait(true, nil) was called on a Config that held a WaitGroup and
\* shouldWait = false.
C6_Witness ==
    /\ cfgRet.call = CWait(TRUE, 0)
    /\ cfgRet.before.waitGroup # 0
    /\ ~cfgRet.before.shouldWait
    /\ cfg.waitGroup = 0

====
